---- MODULE Spec2Model ----
(***************************************************************************)
(* Model of custom_components/qilowatt/mqtt_client.py: class MQTTClient.   *)
(*                                                                         *)
(* Execution contexts:                                                     *)
(*   host    the Home Assistant event loop (hass.loop): start, stop, the   *)
(*           callbacks of the loop's FIFO ready queue, the coroutine steps *)
(*           of handle_inverter_control and update_data_loop;              *)
(*   link    the thread of the Qilowatt MQTT client, which calls           *)
(*           _on_command_received;                                         *)
(*   worker  the executor threads that run update_data.                    *)
(* Each action is one step that the code runs without giving up its        *)
(* context: a host step runs from one suspension point to the next.        *)
(***************************************************************************)
EXTENDS Naturals, Sequences, FiniteSets

(* ------------------------------ bounds -------------------------------- *)
\* commands the broker delivers in one behaviour
MaxCmds == 2
\* calls of start() that succeed in one behaviour
MaxStarts == 2

(* --------------------------- value domains ---------------------------- *)
\* const.DOMAIN, imported at line 6
const_DOMAIN == "qilowatt"
\* config_entry.data["inverter_id"] of the one config entry modelled
InverterIds == {"inv1"}
\* WorkModeCommand._source values the broker may send
Sources == {"timer", "fusebox", "manual"}
\* the options of the Inverter Control select entity, and a value outside them
ControlValues == {"Full control", "Only timer", "Only Fusebox", "No control", "unknown"}
\* what hass.states.get(select_entity_id) can give: None (no state) or a state
SelectStates == ControlValues \cup {"None"}
\* values of get_energy_data() / get_metrics_data()
Data == {"d1", "d2"}
NoData == "None"

VARIABLES
    \* ---- MQTTClient fields (lines 16-29)
    inverter_id,          \* self.inverter_id
    has_entity_registry,  \* whether the object has an attribute entity_registry
    qilowatt_client,      \* self.qilowatt_client: "None" or "client"
    \* ---- the QilowattMQTTClient instance(s)
    links_constructed,    \* QilowattMQTTClient(...) constructor calls
    callbacks_registered, \* set_command_callback calls
    connected,            \* connect() succeeded and no disconnect() since
    link_energy,          \* last value given to set_energy_data
    link_metrics,         \* last value given to set_metrics_data
    \* ---- callers of start() / stop()
    starts_ok,            \* calls of start() that returned normally
    last_call,            \* how the last lifecycle call ended, as its caller saw it
    \* ---- update_data_loop tasks, one entry per create_task (line 48)
    loop_pc,              \* position of each task
    loop_energy,          \* update_data's local energy_data
    loop_metrics,         \* update_data's local metrics_data
    loop_failed,          \* the task's last finished cycle raised and was logged (line 122)
    loop_task,            \* the task itself: "running" or "stopped"
    loop_cancel,          \* cancel() of the task: "no", "requested", "delivered"
    \* ---- host state store, owned by Home Assistant
    select_registered,    \* entity registry knows the Inverter Control select
    select_state,         \* hass.states.get(...) of it: "None" or its state
    \* ---- commands
    cmds,                 \* commands delivered so far, in order: their _source
    cb_pc,                \* position of the link thread in _on_command_received
    ready,                \* hass.loop's FIFO ready queue (entries of this module)
    task,                 \* per command: state of the handle_inverter_control task
    cmd_log,              \* per command: the error/info line its task logged
    set_mode_log,         \* commands inverter.set_mode was invoked with, in order
    bus,                  \* async_dispatcher_send calls, in order
    host_alive,           \* the event loop is running
    \* ---- the authorization test taken alone
    auth_in,              \* its inputs: <<inverter_control_value, command._source>>
    auth_out              \* <<>>, or <<result>> once it was evaluated

lifecycle_vars == <<qilowatt_client, links_constructed, callbacks_registered,
                    connected, starts_ok, last_call>>
telemetry_vars == <<loop_pc, loop_energy, loop_metrics, loop_failed,
                    loop_task, loop_cancel, link_energy, link_metrics>>
select_vars == <<select_registered, select_state>>
command_vars == <<cmds, cb_pc, ready, task, cmd_log, set_mode_log, bus, host_alive>>
auth_vars == <<auth_in, auth_out>>
config_vars == <<inverter_id, has_entity_registry>>
vars == <<config_vars, lifecycle_vars, telemetry_vars, select_vars,
          command_vars, auth_vars>>

(* ----------------------- authorization table -------------------------- *)
\* control_map (lines 98-103)
control_map ==
    [v \in {"Full control", "Only timer", "Only Fusebox", "No control"} |->
        CASE v = "Full control" -> {"timer", "fusebox"}
          [] v = "Only timer"   -> {"timer"}
          [] v = "Only Fusebox" -> {"fusebox"}
          [] v = "No control"   -> {}]

\* allowed_sources with a default that allows: control_map.get(value,
\* ["timer", "fusebox"])
allowed_sources_default_allows(inverter_control_value) ==
    IF inverter_control_value \in DOMAIN control_map
    THEN control_map[inverter_control_value]
    ELSE {"timer", "fusebox"}

\* control_map.get(inverter_control_value, []) (line 105)
allowed_sources(inverter_control_value) ==
    IF inverter_control_value \in DOMAIN control_map
    THEN control_map[inverter_control_value]
    ELSE {}

\* the test of line 107, negated: the command may control the inverter
IsAllowed(inverter_control_value, source) ==
    source \in allowed_sources(inverter_control_value)

\* inputs for the table taken alone: the select's options and other strings,
\* the known sources and other strings
AuthSettings == ControlValues \cup {"", "None", "full control", "Only fusebox", "Only Timer"}
AuthOrigins == Sources \cup {"", "Timer", "Fusebox"}

(* ------------------------------- Init --------------------------------- *)
\* The object after __init__ (lines 16-29): no client yet, and no attribute
\* entity_registry (no line of the class assigns it). The integration's select
\* entity does not exist yet; Home Assistant registers it and gives it a state
\* later (host_select_changes).
Init ==
    /\ inverter_id \in InverterIds
    /\ has_entity_registry = FALSE
    /\ qilowatt_client = "None"
    /\ links_constructed = 0
    /\ callbacks_registered = 0
    /\ connected = FALSE
    /\ link_energy = NoData
    /\ link_metrics = NoData
    /\ starts_ok = 0
    /\ last_call = "none"
    /\ loop_pc = <<>>
    /\ loop_energy = <<>>
    /\ loop_metrics = <<>>
    /\ loop_failed = <<>>
    /\ loop_task = <<>>
    /\ loop_cancel = <<>>
    /\ select_registered = FALSE
    /\ select_state = "None"
    /\ cmds = <<>>
    /\ cb_pc = "idle"
    /\ ready = <<>>
    /\ task = <<>>
    /\ cmd_log = <<>>
    /\ set_mode_log = <<>>
    /\ bus = <<>>
    /\ host_alive = TRUE
    /\ auth_in = <<"None", "None">>
    /\ auth_out = <<>>

(* --------------------------- small helpers ---------------------------- *)
Loops == 1..Len(loop_pc)
Cmds == 1..Len(cmds)

(* ---------------------- ClientLifecycle: start ------------------------ *)
\* client_is_None with the test of line 44 dropped: initialize on every start
client_is_None_always == TRUE

\* line 44: self.qilowatt_client is None
client_is_None == qilowatt_client = "None"

\* initialize_client (lines 31-39): construct the client, register the callback
initialize_client ==
    /\ qilowatt_client' = "client"
    /\ links_constructed' = links_constructed + 1
    /\ callbacks_registered' = callbacks_registered + 1

\* create_task_update_data_loop with the task kept in a field and created
\* only when there is none yet
create_task_update_data_loop_once ==
    IF loop_pc = <<>>
    THEN /\ loop_pc' = <<"created">>
         /\ loop_energy' = <<NoData>>
         /\ loop_metrics' = <<NoData>>
         /\ loop_failed' = <<FALSE>>
         /\ loop_task' = <<"running">>
         /\ loop_cancel' = <<"no">>
    ELSE UNCHANGED <<loop_pc, loop_energy, loop_metrics, loop_failed, loop_task,
                     loop_cancel>>

\* line 48: self.hass.loop.create_task(self.update_data_loop()); the new task
\* has not run yet
create_task_update_data_loop ==
    /\ loop_pc' = Append(loop_pc, "created")
    /\ loop_energy' = Append(loop_energy, NoData)
    /\ loop_metrics' = Append(loop_metrics, NoData)
    /\ loop_failed' = Append(loop_failed, FALSE)
    /\ loop_task' = Append(loop_task, "running")
    /\ loop_cancel' = Append(loop_cancel, "no")

\* start_connect with connect() wrapped in try/except that logs and goes on
start_connect_masked(connect_ok) ==
    /\ connected' = (connected \/ connect_ok)
    /\ create_task_update_data_loop
    /\ starts_ok' = starts_ok + 1
    /\ last_call' = "start_ok"

\* lines 46-48: connect() returns, or raises and start() ends there with the
\* exception going to its caller
start_connect(connect_ok) ==
    IF connect_ok
    THEN /\ connected' = TRUE
         /\ create_task_update_data_loop
         /\ starts_ok' = starts_ok + 1
         /\ last_call' = "start_ok"
    ELSE /\ last_call' = "start_raised"
         /\ UNCHANGED <<connected, starts_ok, loop_pc, loop_energy, loop_metrics,
                        loop_failed, loop_task, loop_cancel>>

\* start() (lines 41-48): a coroutine with no await, one host step
start ==
    /\ host_alive
    /\ starts_ok < MaxStarts
    /\ IF client_is_None
       THEN initialize_client
       ELSE UNCHANGED <<qilowatt_client, links_constructed, callbacks_registered>>
    /\ \E connect_ok \in BOOLEAN : start_connect(connect_ok)
    /\ UNCHANGED <<config_vars, link_energy, link_metrics, select_vars,
                   command_vars, auth_vars>>

(* ----------------------- ClientLifecycle: stop ------------------------ *)
\* lines 53-54: disconnect() is called iff the client exists; if it raises,
\* the exception goes to the caller of stop()
stop_disconnect(disconnect_ok) ==
    IF qilowatt_client # "None"
    THEN IF disconnect_ok
         THEN connected' = FALSE /\ last_call' = "stop_ok"
         ELSE last_call' = "stop_raised" /\ UNCHANGED connected
    ELSE last_call' = "stop_ok" /\ UNCHANGED connected

\* stop with the update_data_loop tasks cancelled by it
stop_cancelling_loops ==
    /\ host_alive
    /\ \E disconnect_ok \in BOOLEAN : stop_disconnect(disconnect_ok)
    /\ loop_task' = [l \in 1..Len(loop_task) |-> "stopped"]
    /\ UNCHANGED <<config_vars, qilowatt_client, links_constructed,
                   callbacks_registered, starts_ok, loop_pc, loop_energy,
                   loop_metrics, loop_failed, loop_cancel, link_energy,
                   link_metrics, select_vars, command_vars, auth_vars>>

\* stop() (lines 50-54): the update_data_loop tasks are left as they are
stop ==
    /\ host_alive
    /\ \E disconnect_ok \in BOOLEAN : stop_disconnect(disconnect_ok)
    /\ UNCHANGED <<config_vars, qilowatt_client, links_constructed,
                   callbacks_registered, starts_ok, telemetry_vars,
                   select_vars, command_vars, auth_vars>>

(* --------------------------- TelemetryLoop ---------------------------- *)
\* Positions of an update_data_loop task:
\*   "created"      create_task was called, the coroutine has not run
\*   "get_energy" .. "set_metrics"   update_data runs in a worker, about to
\*                  execute line 128 / 129 / 132 / 133; the task awaits it
\*   "returned", "raised"   update_data ended; the task is to be resumed
\*   "sleep"        in asyncio.sleep(10) (line 123)
\* A task that was cancelled is "stopped"; its loop_pc then only follows the
\* update_data call that was running in the worker when it was cancelled.

\* the event loop steps a task that has not ended, and steps it with its
\* coroutine's code unless a cancellation is to be delivered first
task_may_run(l) == loop_task[l] = "running" /\ loop_cancel[l] # "requested"

\* lines 118-120: the task's first step, or its wake-up from sleep: enter the
\* next iteration and hand update_data to the executor
update_data_loop_iterate(l) ==
    /\ host_alive
    /\ task_may_run(l)
    /\ loop_pc[l] \in {"created", "sleep"}
    /\ loop_pc' = [loop_pc EXCEPT ![l] = "get_energy"]
    /\ UNCHANGED <<loop_energy, loop_metrics, loop_failed, loop_task, loop_cancel,
                   link_energy, link_metrics>>
    /\ UNCHANGED <<config_vars, lifecycle_vars, select_vars, command_vars, auth_vars>>

\* update_data_get_energy with line 132 moved up to follow line 128: the
\* energy data is handed to the link before the metrics are read
update_data_get_energy_publishes(l) ==
    /\ loop_pc[l] = "get_energy"
    /\ \E r \in Data \cup {"raise"} :
         IF r = "raise"
         THEN /\ loop_pc' = [loop_pc EXCEPT ![l] = "raised"]
              /\ UNCHANGED <<loop_energy, link_energy>>
         ELSE /\ loop_pc' = [loop_pc EXCEPT ![l] = "get_metrics"]
              /\ loop_energy' = [loop_energy EXCEPT ![l] = r]
              /\ link_energy' = r
    /\ UNCHANGED <<loop_metrics, loop_failed, loop_task, loop_cancel, link_metrics>>
    /\ UNCHANGED <<config_vars, lifecycle_vars, select_vars, command_vars, auth_vars>>

\* line 128: energy_data = self.inverter.get_energy_data()
update_data_get_energy(l) ==
    /\ loop_pc[l] = "get_energy"
    /\ \E r \in Data \cup {"raise"} :
         IF r = "raise"
         THEN /\ loop_pc' = [loop_pc EXCEPT ![l] = "raised"]
              /\ UNCHANGED loop_energy
         ELSE /\ loop_pc' = [loop_pc EXCEPT ![l] = "get_metrics"]
              /\ loop_energy' = [loop_energy EXCEPT ![l] = r]
    /\ UNCHANGED <<loop_metrics, loop_failed, loop_task, loop_cancel, link_energy, link_metrics>>
    /\ UNCHANGED <<config_vars, lifecycle_vars, select_vars, command_vars, auth_vars>>

\* line 129: metrics_data = self.inverter.get_metrics_data()
update_data_get_metrics(l) ==
    /\ loop_pc[l] = "get_metrics"
    /\ \E r \in Data \cup {"raise"} :
         IF r = "raise"
         THEN /\ loop_pc' = [loop_pc EXCEPT ![l] = "raised"]
              /\ loop_energy' = [loop_energy EXCEPT ![l] = NoData]
              /\ UNCHANGED loop_metrics
         ELSE /\ loop_pc' = [loop_pc EXCEPT ![l] = "set_energy"]
              /\ loop_metrics' = [loop_metrics EXCEPT ![l] = r]
              /\ UNCHANGED loop_energy
    /\ UNCHANGED <<loop_failed, loop_task, loop_cancel, link_energy, link_metrics>>
    /\ UNCHANGED <<config_vars, lifecycle_vars, select_vars, command_vars, auth_vars>>

\* line 132: self.qilowatt_client.set_energy_data(energy_data)
update_data_set_energy(l) ==
    /\ loop_pc[l] = "set_energy"
    /\ \E ok \in BOOLEAN :
         IF ok
         THEN /\ link_energy' = loop_energy[l]
              /\ loop_pc' = [loop_pc EXCEPT ![l] = "set_metrics"]
              /\ UNCHANGED loop_metrics
         ELSE /\ loop_pc' = [loop_pc EXCEPT ![l] = "raised"]
              /\ loop_metrics' = [loop_metrics EXCEPT ![l] = NoData]
              /\ UNCHANGED link_energy
    /\ loop_energy' = [loop_energy EXCEPT ![l] = NoData]
    /\ UNCHANGED <<loop_failed, loop_task, loop_cancel, link_metrics>>
    /\ UNCHANGED <<config_vars, lifecycle_vars, select_vars, command_vars, auth_vars>>

\* line 133: self.qilowatt_client.set_metrics_data(metrics_data)
update_data_set_metrics(l) ==
    /\ loop_pc[l] = "set_metrics"
    /\ \E ok \in BOOLEAN :
         IF ok
         THEN /\ link_metrics' = loop_metrics[l]
              /\ loop_pc' = [loop_pc EXCEPT ![l] = "returned"]
         ELSE /\ loop_pc' = [loop_pc EXCEPT ![l] = "raised"]
              /\ UNCHANGED link_metrics
    /\ loop_metrics' = [loop_metrics EXCEPT ![l] = NoData]
    /\ UNCHANGED <<loop_energy, loop_failed, loop_task, loop_cancel, link_energy>>
    /\ UNCHANGED <<config_vars, lifecycle_vars, select_vars, command_vars, auth_vars>>

\* after_update_data without the try/except of lines 119-122: the exception
\* leaves the coroutine and the task is over
after_update_data_uncaught(raised) == IF raised THEN "stopped" ELSE "sleep"

\* lines 121-123: where the task goes once update_data has ended, by return
\* (raised = FALSE) or by an exception, which is caught and logged
after_update_data(raised) == "sleep"

\* lines 120-123: the task is resumed with the outcome of update_data
update_data_loop_resume(l) ==
    /\ host_alive
    /\ task_may_run(l)
    /\ loop_pc[l] \in {"returned", "raised"}
    /\ loop_pc' = [loop_pc EXCEPT ![l] = after_update_data(loop_pc[l] = "raised")]
    /\ loop_failed' = [loop_failed EXCEPT ![l] = (loop_pc[l] = "raised")]
    /\ UNCHANGED <<loop_energy, loop_metrics, loop_task, loop_cancel, link_energy, link_metrics>>
    /\ UNCHANGED <<config_vars, lifecycle_vars, select_vars, command_vars, auth_vars>>

\* somebody outside the class (the teardown of the event loop, a holder of the
\* task) calls cancel() on task l; the class keeps no reference to the task
\* (line 48) and never does
cancel_update_data_loop(l) ==
    /\ host_alive
    /\ loop_task[l] = "running"
    /\ loop_cancel[l] = "no"
    /\ loop_cancel' = [loop_cancel EXCEPT ![l] = "requested"]
    /\ UNCHANGED <<loop_pc, loop_energy, loop_metrics, loop_failed, loop_task,
                   link_energy, link_metrics>>
    /\ UNCHANGED <<config_vars, lifecycle_vars, select_vars, command_vars, auth_vars>>

\* after_cancel with `except BaseException` (or a bare except) at line 121:
\* the CancelledError is caught, logged, and the loop goes on
after_cancel_swallowed == "running"

\* lines 119-123: CancelledError is not an Exception, so the handler of line
\* 121 does not catch it, and nothing encloses the sleep of line 123: the
\* coroutine ends
after_cancel == "stopped"

\* the event loop delivers the cancellation: CancelledError is raised in the
\* coroutine at the await it is suspended at (line 120 or 123), or the task
\* ends before its first step; an update_data call that is running in the
\* worker is not interrupted, only its result is dropped
update_data_loop_cancelled(l) ==
    /\ host_alive
    /\ loop_cancel[l] = "requested"
    /\ loop_cancel' = [loop_cancel EXCEPT ![l] = "delivered"]
    /\ loop_task' = [loop_task EXCEPT ![l] = after_cancel]
    /\ UNCHANGED <<loop_pc, loop_energy, loop_metrics, loop_failed,
                   link_energy, link_metrics>>
    /\ UNCHANGED <<config_vars, lifecycle_vars, select_vars, command_vars, auth_vars>>

\* the positions at which update_data is running in a worker thread
WorkerPositions == {"get_energy", "get_metrics", "set_energy", "set_metrics"}

\* event_loop_free with update_data called in the coroutine itself
\* (self.update_data() in place of line 120): while a cycle body is in
\* progress the event loop runs nothing else
event_loop_free_inline == \A l \in Loops : loop_pc[l] \notin WorkerPositions

\* line 120: async_add_executor_job runs update_data in an executor thread and
\* the coroutine awaits its future, so the event loop is never occupied by a
\* cycle body
event_loop_free == TRUE

\* any step of telemetry task l
TelemetryStep(l) ==
    \/ update_data_loop_iterate(l)
    \/ update_data_get_energy(l)
    \/ update_data_get_metrics(l)
    \/ update_data_set_energy(l)
    \/ update_data_set_metrics(l)
    \/ update_data_loop_resume(l)

(* ------------------------- host state store --------------------------- *)
\* Home Assistant registers, removes or updates the Inverter Control select
\* entity; the class only reads it (lines 80-94)
host_select_changes ==
    /\ host_alive
    /\ \E reg \in BOOLEAN, st \in SelectStates :
         /\ reg = FALSE => st = "None"
         /\ select_registered' = reg
         /\ select_state' = st
    /\ UNCHANGED <<config_vars, lifecycle_vars, telemetry_vars, command_vars, auth_vars>>

(* ------------------- CommandDispatcher: link thread ------------------- *)
\* the WorkModeCommand object of the c-th delivery
Command(c) == [id |-> c, source |-> cmds[c]]

\* workmode_signal without the inverter id
workmode_signal_without_id == <<const_DOMAIN, "workmode_update">>

\* line 70: f"{DOMAIN}_workmode_update_{self.inverter_id}"
workmode_signal == <<const_DOMAIN, "workmode_update", inverter_id>>

\* entries of hass.loop's ready queue
ReadyEntry(kind, c, args) == [kind |-> kind, cmd |-> c, args |-> args]

\* lines 56-64: the link calls _on_command_received(command), which hands the
\* coroutine handle_inverter_control(command) to the loop and goes on; the
\* link calls it when the callback is registered and the link connected
on_command_received_control(source) ==
    /\ cb_pc = "idle"
    /\ Len(cmds) < MaxCmds
    /\ callbacks_registered > 0
    /\ connected
    /\ cmds' = Append(cmds, source)
    /\ task' = Append(task, "scheduled")
    /\ cmd_log' = Append(cmd_log, "none")
    /\ ready' = Append(ready, ReadyEntry("create_task", Len(cmds) + 1, <<>>))
    /\ cb_pc' = "call_soon"
    /\ UNCHANGED <<set_mode_log, bus>>
    /\ UNCHANGED <<host_alive, config_vars, lifecycle_vars, telemetry_vars, select_vars,
                   auth_vars>>

\* lines 66-72: call_soon_threadsafe(async_dispatcher_send, hass, signal, command)
on_command_received_notify ==
    /\ cb_pc = "call_soon"
    /\ ready' = Append(ready, ReadyEntry("dispatcher_send", Len(cmds),
                                        <<workmode_signal, Command(Len(cmds))>>))
    /\ cb_pc' = "return"
    /\ UNCHANGED <<cmds, task, cmd_log, set_mode_log, bus>>
    /\ UNCHANGED <<host_alive, config_vars, lifecycle_vars, telemetry_vars, select_vars,
                   auth_vars>>

\* callback_may_return with .result() called on the Future: the callback
\* waits for the task to end
callback_may_return_waits(c) == task[c] \in {"returned", "raised"}

\* lines 61-64: the Future that run_coroutine_threadsafe returns is dropped, so
\* the callback's return waits for nothing
callback_may_return(c) == TRUE

\* callback_outcome with the Future's exception read and raised again
callback_outcome_reraises(c) == IF task[c] = "raised" THEN "raised" ELSE "idle"

\* lines 61-64: what the callback's caller gets: the task's outcome is never
\* read, the callback returns normally
callback_outcome(c) == "idle"

\* the end of _on_command_received (after line 72)
on_command_received_return ==
    /\ cb_pc = "return"
    /\ callback_may_return(Len(cmds))
    /\ cb_pc' = callback_outcome(Len(cmds))
    /\ UNCHANGED <<cmds, ready, task, cmd_log, set_mode_log, bus>>
    /\ UNCHANGED <<host_alive, config_vars, lifecycle_vars, telemetry_vars, select_vars,
                   auth_vars>>

(* -------------------- CommandDispatcher: host loop -------------------- *)
\* The loop runs the head of its ready queue.

\* run_coroutine_threadsafe's callback (lines 61-64): wraps the coroutine in a
\* task, whose first step is queued behind what is ready already
host_create_task ==
    /\ host_alive
    /\ event_loop_free
    /\ ready # <<>>
    /\ Head(ready).kind = "create_task"
    /\ task' = [task EXCEPT ![Head(ready).cmd] = "pending"]
    /\ ready' = Append(Tail(ready), ReadyEntry("task_step", Head(ready).cmd, <<>>))
    /\ UNCHANGED <<cmds, cb_pc, cmd_log, set_mode_log, bus>>
    /\ UNCHANGED <<host_alive, config_vars, lifecycle_vars, telemetry_vars, select_vars,
                   auth_vars>>

\* lines 67-72: async_dispatcher_send(hass, signal, command) runs
host_dispatcher_send ==
    /\ host_alive
    /\ event_loop_free
    /\ ready # <<>>
    /\ Head(ready).kind = "dispatcher_send"
    /\ bus' = Append(bus, [signal |-> Head(ready).args[1],
                           payload |-> Head(ready).args[2]])
    /\ ready' = Tail(ready)
    /\ UNCHANGED <<cmds, cb_pc, task, cmd_log, set_mode_log>>
    /\ UNCHANGED <<host_alive, config_vars, lifecycle_vars, telemetry_vars, select_vars,
                   auth_vars>>

\* an exception that leaves handle_inverter_control ends its task and is kept
\* in the task's future, which nothing reads (lines 61-64); nothing is logged
coroutine_raises(c) ==
    /\ task' = [task EXCEPT ![c] = "raised"]

\* a return of handle_inverter_control (lines 86, 92, 111, and after 114)
coroutine_returns(c) ==
    /\ task' = [task EXCEPT ![c] = "returned"]

\* handle_inverter_control (lines 74-114) from its start to its first
\* suspension: the lookups are plain calls, and `await set_mode(command)`
\* enters set_mode in the same step
handle_inverter_control(c) ==
    IF ~has_entity_registry
    THEN \* line 80: self.entity_registry raises AttributeError
         /\ coroutine_raises(c)
         /\ UNCHANGED <<cmd_log, set_mode_log>>
    ELSE IF ~select_registered
    THEN \* lines 84-86
         /\ cmd_log' = [cmd_log EXCEPT ![c] = "error: select entity not found"]
         /\ coroutine_returns(c)
         /\ UNCHANGED set_mode_log
    ELSE IF select_state = "None"
    THEN \* lines 90-92
         /\ cmd_log' = [cmd_log EXCEPT ![c] = "error: unable to get state"]
         /\ coroutine_returns(c)
         /\ UNCHANGED set_mode_log
    ELSE IF ~IsAllowed(select_state, Command(c).source)
    THEN \* lines 107-111
         /\ cmd_log' = [cmd_log EXCEPT ![c] = "info: source not allowed"]
         /\ coroutine_returns(c)
         /\ UNCHANGED set_mode_log
    ELSE \* line 114
         /\ set_mode_log' = Append(set_mode_log, Command(c))
         /\ task' = [task EXCEPT ![c] = "set_mode"]
         /\ UNCHANGED cmd_log

\* the first step of a handle_inverter_control task
host_task_step ==
    /\ host_alive
    /\ event_loop_free
    /\ ready # <<>>
    /\ Head(ready).kind = "task_step"
    /\ handle_inverter_control(Head(ready).cmd)
    /\ ready' = Tail(ready)
    /\ UNCHANGED <<cmds, cb_pc, bus>>
    /\ UNCHANGED <<host_alive, config_vars, lifecycle_vars, telemetry_vars, select_vars,
                   auth_vars>>

\* line 114: set_mode returns and the coroutine ends
set_mode_returns(c) ==
    /\ host_alive
    /\ task[c] = "set_mode"
    /\ coroutine_returns(c)
    /\ UNCHANGED <<cmds, cb_pc, ready, cmd_log, set_mode_log, bus>>
    /\ UNCHANGED <<host_alive, config_vars, lifecycle_vars, telemetry_vars, select_vars,
                   auth_vars>>

\* line 114: set_mode raises, and the exception leaves the coroutine
set_mode_raises(c) ==
    /\ host_alive
    /\ task[c] = "set_mode"
    /\ coroutine_raises(c)
    /\ UNCHANGED <<cmds, cb_pc, ready, cmd_log, set_mode_log, bus>>
    /\ UNCHANGED <<host_alive, config_vars, lifecycle_vars, telemetry_vars, select_vars,
                   auth_vars>>

\* any step of the command path; the event loop survives what its callbacks
\* and tasks do (asyncio keeps a task's exception in the task)
CommandStep ==
    \/ \E source \in Sources : on_command_received_control(source)
    \/ on_command_received_notify
    \/ on_command_received_return
    \/ host_create_task
    \/ host_dispatcher_send
    \/ host_task_step

\* the steps of an awaited set_mode; no state reachable from Init enables them
\* (SetModeNeverEntered)
SetModeStep ==
    \E c \in Cmds : set_mode_returns(c) \/ set_mode_raises(c)

(* ------------------- the authorization test alone -------------------- *)
\* lines 105-107 applied to one (inverter_control_value, command._source)
authorization_test ==
    /\ auth_out = <<>>
    /\ auth_out' = <<IsAllowed(auth_in[1], auth_in[2])>>
    /\ UNCHANGED <<auth_in, config_vars, lifecycle_vars, telemetry_vars,
                   select_vars, command_vars>>

InitAuth ==
    /\ inverter_id \in InverterIds
    /\ has_entity_registry = FALSE
    /\ qilowatt_client = "None"
    /\ links_constructed = 0
    /\ callbacks_registered = 0
    /\ connected = FALSE
    /\ link_energy = NoData
    /\ link_metrics = NoData
    /\ starts_ok = 0
    /\ last_call = "none"
    /\ loop_pc = <<>>
    /\ loop_energy = <<>>
    /\ loop_metrics = <<>>
    /\ loop_failed = <<>>
    /\ loop_task = <<>>
    /\ loop_cancel = <<>>
    /\ select_registered = FALSE
    /\ select_state = "None"
    /\ cmds = <<>>
    /\ cb_pc = "idle"
    /\ ready = <<>>
    /\ task = <<>>
    /\ cmd_log = <<>>
    /\ set_mode_log = <<>>
    /\ bus = <<>>
    /\ host_alive = TRUE
    /\ auth_in \in AuthSettings \X AuthOrigins
    /\ auth_out = <<>>

(* -------------------------- specifications --------------------------- *)
NextTelemetry ==
    \/ start
    \/ stop
    \/ \E l \in Loops : update_data_loop_iterate(l)
    \/ \E l \in Loops : update_data_get_energy(l)
    \/ \E l \in Loops : update_data_get_metrics(l)
    \/ \E l \in Loops : update_data_set_energy(l)
    \/ \E l \in Loops : update_data_set_metrics(l)
    \/ \E l \in Loops : update_data_loop_resume(l)

NextCommands ==
    \/ start
    \/ stop
    \/ host_select_changes
    \/ \E source \in Sources : on_command_received_control(source)
    \/ on_command_received_notify
    \/ on_command_received_return
    \/ host_create_task
    \/ host_dispatcher_send
    \/ host_task_step

Next ==
    \/ NextTelemetry
    \/ NextCommands
    \/ SetModeStep
    \/ \E l \in Loops : cancel_update_data_loop(l)
    \/ \E l \in Loops : update_data_loop_cancelled(l)

\* the whole program
Spec == Init /\ [][Next]_vars

\* start/stop and the telemetry tasks, while the broker sends no command
SpecTelemetry == Init /\ [][NextTelemetry]_vars

\* start/stop and the command path, while the telemetry tasks do not advance
SpecCommands == Init /\ [][NextCommands]_vars

\* the event loop runs the head of its ready queue
HostQueueStep == host_create_task \/ host_dispatcher_send \/ host_task_step

\* the link thread goes on in _on_command_received
LinkThreadStep == on_command_received_notify \/ on_command_received_return

\* SpecCommands with a running event loop and a running link thread
FairSpecCommands ==
    SpecCommands /\ WF_vars(HostQueueStep) /\ WF_vars(LinkThreadStep)

\* a host step of telemetry task l: the loop runs what is ready and fires
\* the timer of asyncio.sleep
HostLoopStep(l) ==
    /\ l \in Loops
    /\ update_data_loop_iterate(l) \/ update_data_loop_resume(l)

\* SpecTelemetry with a running event loop: a task that can take a host step
\* takes it (nothing is assumed of the calls made in the worker)
FairSpecTelemetry ==
    SpecTelemetry /\ \A l \in 1..MaxStarts : WF_vars(HostLoopStep(l))

NextIsolation ==
    \/ start
    \/ \E source \in Sources : on_command_received_control(source)
    \/ on_command_received_notify
    \/ on_command_received_return
    \/ host_create_task
    \/ host_dispatcher_send
    \/ host_task_step
    \/ \E l \in Loops : update_data_loop_iterate(l)
    \/ \E l \in Loops : update_data_get_energy(l)
    \/ \E l \in Loops : update_data_get_metrics(l)
    \/ \E l \in Loops : update_data_set_energy(l)
    \/ \E l \in Loops : update_data_set_metrics(l)
    \/ \E l \in Loops : update_data_loop_resume(l)

\* a started client that is not stopped: commands arrive while the telemetry
\* tasks run
SpecIsolation == Init /\ [][NextIsolation]_vars

NextTeardown ==
    \/ start
    \/ \E l \in Loops : update_data_loop_iterate(l)
    \/ \E l \in Loops : update_data_get_energy(l)
    \/ \E l \in Loops : update_data_get_metrics(l)
    \/ \E l \in Loops : update_data_set_energy(l)
    \/ \E l \in Loops : update_data_set_metrics(l)
    \/ \E l \in Loops : update_data_loop_resume(l)
    \/ \E l \in Loops : cancel_update_data_loop(l)
    \/ \E l \in Loops : update_data_loop_cancelled(l)

\* a started client that is not stopped (stop() touches no task): the
\* telemetry tasks, with tasks cancelled from outside
SpecTeardown == Init /\ [][NextTeardown]_vars

\* lines 98-107 as a function of their two inputs
SpecAuth == InitAuth /\ [][authorization_test]_vars

\* the command path with the steps of an awaited set_mode added
SpecCommandsSetMode == Init /\ [][NextCommands \/ SetModeStep]_vars

\* no task ever awaits set_mode: line 80 raises first
SetModeNeverEntered ==
    /\ set_mode_log = <<>>
    /\ \A c \in Cmds : task[c] # "set_mode"

(* ============================== claims ================================ *)
\* the step in which the control path of command c runs (the first step of
\* its handle_inverter_control task)
ControlPathRuns(c) ==
    /\ ready # <<>>
    /\ Head(ready) = ReadyEntry("task_step", c, <<>>)
    /\ ready' = Tail(ready)

\* the control-mode setting, as it is now, authorizes the origin of c
AuthorizedNow(c) ==
    /\ select_registered
    /\ select_state # "None"
    /\ IsAllowed(select_state, cmds[c])

\* C1: when the control path of a command runs, set_mode is invoked with that
\* command in that step if the setting current at that moment authorizes its
\* origin, and is not invoked if it denies it; no other step invokes set_mode,
\* so an authorized command gets exactly one invocation and a denied one none.
C1_SetModeIffAuthorized ==
    [][ /\ \A c \in Cmds :
             ControlPathRuns(c) =>
                 IF AuthorizedNow(c)
                 THEN set_mode_log' = Append(set_mode_log, Command(c))
                 ELSE set_mode_log' = set_mode_log
        /\ (\A c \in Cmds : ~ControlPathRuns(c)) => set_mode_log' = set_mode_log
      ]_vars

\* C1's case: the control path of a command ran (and ended) while the setting
\* authorized its origin
C1_AuthorizedCommandRan ==
    \E c \in Cmds : task[c] \in {"raised", "returned", "set_mode"} /\ AuthorizedNow(c)

\* dispatcher sends done for command c, and those still in the ready queue
Published(c) == {i \in 1..Len(bus) : bus[i].payload.id = c}
QueuedSends(c) ==
    {i \in 1..Len(ready) : ready[i].kind = "dispatcher_send" /\ ready[i].cmd = c}
\* the callback of command c is past its call_soon_threadsafe (line 72)
NotifyIssued(c) == c < Len(cmds) \/ cb_pc \in {"return", "idle"}

\* C2: every dispatcher send carries the signal <DOMAIN>_workmode_update_<this
\* inverter's id> and a delivered command as delivered, and for each delivered
\* command whose callback is past line 72 the sends done plus the sends still
\* in the event loop's queue number exactly one, whatever became of its
\* control path.
C2_ExactlyOneNotification ==
    /\ \A i \in 1..Len(bus) :
         /\ bus[i].signal = <<"qilowatt", "workmode_update", inverter_id>>
         /\ bus[i].payload.id \in Cmds
         /\ bus[i].payload = [id |-> bus[i].payload.id, source |-> cmds[bus[i].payload.id]]
    /\ \A c \in Cmds :
         Cardinality(Published(c)) + Cardinality(QueuedSends(c))
             = IF NotifyIssued(c) THEN 1 ELSE 0

\* C2's case: a command whose control path failed has its one notification
\* published
C2_FailedCommandNotified ==
    \E c \in Cmds : task[c] = "raised" /\ Cardinality(Published(c)) = 1

\* the table of the specification
SpecAllowedOrigins(settingValue) ==
    CASE settingValue = "Full control" -> {"timer", "fusebox"}
      [] settingValue = "Only timer"   -> {"timer"}
      [] settingValue = "Only Fusebox" -> {"fusebox"}
      [] settingValue = "No control"   -> {}
      [] OTHER                         -> {}

\* C3: the authorization test, for every (settingValue, origin), allows iff
\* origin is in the table entry of settingValue, unknown values having the
\* empty entry; "Full control" allows exactly timer and fusebox and
\* "No control" allows nothing.
C3_AuthorizationTable ==
    auth_out # <<>> =>
        /\ auth_out[1] = (auth_in[2] \in SpecAllowedOrigins(auth_in[1]))
        /\ auth_in[1] = "Full control" => (auth_out[1] <=> auth_in[2] \in {"timer", "fusebox"})
        /\ auth_in[1] = "No control" => ~auth_out[1]

\* C3's case: the test was evaluated for an unknown setting and a known source
C3_UnknownSettingEvaluated ==
    /\ auth_out = <<FALSE>>
    /\ auth_in[1] \notin {"Full control", "Only timer", "Only Fusebox", "No control"}
    /\ auth_in[2] = "timer"

\* C4: whenever a telemetry cycle has failed, the task goes on to attempt the
\* next cycle (so after any number of failures in a row it still runs).
C4_FailedCycleIsFollowedByNext ==
    \A l \in 1..MaxStarts :
        (l \in Loops /\ loop_pc[l] = "raised") ~> (l \in Loops /\ loop_pc[l] = "get_energy")

\* C4's case: a task whose last cycle failed is attempting the next one
C4_RetryAfterFailure ==
    \E l \in Loops : loop_failed[l] /\ loop_pc[l] = "get_energy"

\* the telemetry tasks that are inside update_data
InCycleBody == {l \in Loops : loop_pc[l] \in {"get_energy", "get_metrics", "set_energy", "set_metrics"}}

\* C5: of one client, at most one telemetry cycle body (update_data) is in
\* progress at any time, after any sequence of start/stop calls.
C5_AtMostOneCycleBody == Cardinality(InCycleBody) <= 1

\* C6: whenever the callback has scheduled its work, it can return, whatever
\* the state of the command's control-path task.
C6_CallbackReturnNotBlocked ==
    cb_pc = "return" => ENABLED on_command_received_return

\* C6's case: the callback has returned and its command's control path has
\* not run yet
C6_ReturnedWhilePending ==
    /\ cb_pc = "idle"
    /\ cmds # <<>>
    /\ task[Len(cmds)] \in {"scheduled", "pending"}

\* C7: when the control path of a command runs while the select entity is not
\* registered or has no state, it logs an error, does not invoke set_mode and
\* changes nothing else.
C7_UnresolvedLogsErrorAndAborts ==
    [][ \A c \in Cmds :
          (ControlPathRuns(c) /\ (~select_registered \/ select_state = "None")) =>
              /\ cmd_log'[c] \in {"error: select entity not found",
                                  "error: unable to get state"}
              /\ set_mode_log' = set_mode_log
              /\ UNCHANGED <<lifecycle_vars, telemetry_vars, select_vars, bus>>
      ]_vars

\* C8: no failure of a control-path task or of a telemetry cycle reaches the
\* callback or stops the event loop: the callback never ends by an exception,
\* the loop runs, queued work can always be run, and every telemetry task
\* always has a next step.
C8_FailuresStayInTheirUnit ==
    /\ host_alive
    /\ cb_pc \in {"idle", "call_soon", "return"}
    /\ ready # <<>> => ENABLED (host_create_task \/ host_dispatcher_send \/ host_task_step)
    /\ \A l \in Loops : ENABLED TelemetryStep(l)

\* C8's case: a command was processed after an earlier command's control path
\* had failed, and a telemetry task is in the cycle after a failed one
C8_WorkGoesOnAfterFailures ==
    /\ Len(cmds) >= 2
    /\ task[1] = "raised"
    /\ task[2] = "raised"
    /\ Cardinality(Published(2)) = 1
    /\ cb_pc = "idle"
    /\ \E l \in Loops : loop_failed[l] /\ loop_pc[l] = "get_energy"

\* C9: there is never more than one QilowattMQTTClient: the first start()
\* constructs it and registers the callback on it, and every later start()
\* uses it.
C9_OneMessagingLink ==
    /\ links_constructed <= 1
    /\ callbacks_registered = links_constructed
    /\ (qilowatt_client = "client") <=> (links_constructed = 1)
    /\ (starts_ok > 0 \/ last_call \in {"start_ok", "start_raised"}) => links_constructed = 1

\* C9's case: start() has succeeded twice on the one instance
C9_StartedTwice == starts_ok >= 2 /\ links_constructed = 1

\* C10: start() returns normally only with the link connected, stop() returns
\* normally only with it disconnected, every telemetry task comes from a
\* start() that succeeded, and a start() that raises spawns none.
C10_LinkErrorsPropagate ==
    /\ [](last_call = "start_ok" => connected)
    /\ [](last_call = "stop_ok" => ~connected)
    /\ [](Len(loop_pc) = starts_ok)
    /\ [][((last_call' = "start_raised" /\ last_call # "start_raised") =>
              (loop_pc' = loop_pc /\ connected' = connected))
          /\ ((Len(loop_pc') # Len(loop_pc)) =>
              (last_call' = "start_ok" /\ connected'))]_vars

\* C10's case: a start() raised after an earlier one had succeeded
C10_StartRaised == last_call = "start_raised" /\ starts_ok = 1 /\ Len(loop_pc) = 1

\* the entries of a set_mode log that are invocations with command c
SetModeInvocations(log, c) == {i \in 1..Len(log) : log[i].id = c}

\* what a task can leave in the log that is not an error line
NotErrorLines == {"none", "info: source not allowed"}

\* C11: when the control path of a command fails (its task ends by an
\* exception) while the setting authorizes the command, set_mode has been
\* invoked with it exactly once, an error line has been logged for it, and no
\* further step of the command is queued.
C11_SetModeFailureLoggedOnce ==
    [][ \A c \in Cmds :
          (task[c] # "raised" /\ task'[c] = "raised" /\ AuthorizedNow(c)) =>
              /\ Cardinality(SetModeInvocations(set_mode_log', c)) = 1
              /\ cmd_log'[c] \notin NotErrorLines
              /\ \A i \in 1..Len(ready') :
                    ~(ready'[i].kind = "task_step" /\ ready'[i].cmd = c)
      ]_vars

\* C11's case: the control path of an authorized command has failed
C11_AuthorizedCommandFailed ==
    \E c \in Cmds : task[c] = "raised" /\ AuthorizedNow(c) /\ cmd_log[c] = "none"

\* the queue entries of command c of one kind
Queued(kind, c) == {i \in 1..Len(ready) : ready[i].kind = kind /\ ready[i].cmd = c}

\* the control path of command c is what the event loop runs next
ControlPathNext(c) == ready # <<>> /\ Head(ready) = ReadyEntry("task_step", c, <<>>)

\* the notification of command c is what the event loop runs next
NotificationNext(c) ==
    ready # <<>> /\ Head(ready).kind = "dispatcher_send" /\ Head(ready).cmd = c

\* C12: once the callback of a command is past its two scheduling calls, the
\* control-path work of the command is in the event loop's queue or has run,
\* and its notification is in the queue or has been sent; and both orders of
\* completion are possible: where the notification is next while the control
\* path has not run, the loop can send it, and where the control path is next
\* while the notification is still queued and the setting authorizes the
\* command, the loop can run it and set_mode is invoked with the command then.
C12_BothEnqueuedEitherOrder ==
    /\ \A c \in Cmds : NotifyIssued(c) =>
         /\ task[c] = "scheduled" <=> Queued("create_task", c) # {}
         /\ task[c] = "pending" <=> Queued("task_step", c) # {}
         /\ (Published(c) = {}) <=> (Queued("dispatcher_send", c) # {})
    /\ \A c \in Cmds :
         (NotificationNext(c) /\ task[c] \in {"scheduled", "pending"}) =>
             ENABLED host_dispatcher_send
    /\ \A c \in Cmds :
         (ControlPathNext(c) /\ Queued("dispatcher_send", c) # {} /\ AuthorizedNow(c)) =>
             ENABLED (host_task_step /\ set_mode_log' = Append(set_mode_log, Command(c)))

\* C12's case: the control path of an authorized command is about to run while
\* the command's notification is still queued behind it
C12_ControlPathBeforeNotification ==
    \E c \in Cmds :
        ControlPathNext(c) /\ Queued("dispatcher_send", c) # {} /\ AuthorizedNow(c)

\* a step taken by the link thread inside _on_command_received
LinkContextStep == cb_pc' # cb_pc

\* a step taken by a worker thread inside update_data
WorkerContextStep ==
    \E l \in Loops : loop_pc[l] \in WorkerPositions /\ loop_pc'[l] # loop_pc[l]

\* a step in which the event loop runs the head of its ready queue
HostContextStep == ready # <<>> /\ Tail(ready) = SubSeq(ready', 1, Len(ready) - 1)

\* the effects of the host-only operations of a command: a dispatcher send, a
\* set_mode invocation, a log line of the control path, a task that advances
HostOnlyEffect ==
    \/ bus' # bus
    \/ set_mode_log' # set_mode_log
    \/ \E c \in Cmds : cmd_log'[c] # cmd_log[c] \/ task'[c] # task[c]

\* the effects of update_data: a device read kept in its locals, data handed
\* to the link
UpdateDataEffect ==
    \/ link_energy' # link_energy
    \/ link_metrics' # link_metrics
    \/ \E l \in Loops : loop_energy'[l] # loop_energy[l] \/ loop_metrics'[l] # loop_metrics[l]

\* C13: a step of the link thread has none of the host-only effects, reads and
\* writes nothing of the host state store, and only appends to the event
\* loop's queue; a host-only effect happens only in a step in which the event
\* loop runs the head of its queue; the effects of update_data happen only in
\* worker steps, which leave the event loop's queue alone; and while a cycle
\* body is in progress in a worker, the event loop can run what is queued.
C13_ContextsKeptApart ==
    /\ [][ LinkContextStep =>
             /\ ~HostOnlyEffect
             /\ UNCHANGED <<select_vars, telemetry_vars>>
             /\ ready' = ready \/ (Len(ready') = Len(ready) + 1
                                   /\ SubSeq(ready', 1, Len(ready)) = ready) ]_vars
    /\ [][ HostOnlyEffect => (HostContextStep /\ ~LinkContextStep /\ ~WorkerContextStep) ]_vars
    /\ [][ UpdateDataEffect =>
             (WorkerContextStep /\ ready' = ready /\ ~HostOnlyEffect /\ ~LinkContextStep) ]_vars
    /\ []((ready # <<>> /\ \E l \in Loops : loop_pc[l] \in WorkerPositions) =>
              ENABLED (host_create_task \/ host_dispatcher_send \/ host_task_step))

\* C13's case: a device read is in progress in a worker, a notification has
\* been sent by the event loop, and queued command work is waiting
C13_CommandPendingDuringDeviceRead ==
    /\ \E l \in Loops : loop_pc[l] = "get_metrics"
    /\ bus # <<>>
    /\ ready # <<>>
    /\ cb_pc = "return"

\* C14: nothing makes a command wait for an earlier one: the link can deliver
\* the next command whatever the state of the earlier commands' tasks, the
\* control path that is next in the event loop's queue can run whatever that
\* state, and when the setting authorizes its command that step enters
\* set_mode with it and leaves the earlier commands' tasks, those inside
\* set_mode included, as they are.
C14_NoCommandWaitsForAnother ==
    /\ (cb_pc = "idle" /\ Len(cmds) < MaxCmds /\ connected /\ callbacks_registered > 0) =>
           \A source \in Sources : ENABLED on_command_received_control(source)
    /\ \A c \in Cmds : ControlPathNext(c) => ENABLED host_task_step
    /\ \A c \in Cmds :
         (ControlPathNext(c) /\ AuthorizedNow(c)) =>
             ENABLED (/\ host_task_step
                      /\ task'[c] = "set_mode"
                      /\ \A d \in 1..(c - 1) : task'[d] = task[d])

\* C14's case: the control path of a second authorized command is about to run
\* and the control path of the first has run
C14_SecondControlPathNext ==
    /\ Len(cmds) >= 2
    /\ ControlPathNext(2)
    /\ AuthorizedNow(1)
    /\ AuthorizedNow(2)
    /\ task[1] \notin {"scheduled", "pending"}

\* a call of stop() that changed something its caller can see
StopStep ==
    /\ last_call' \in {"stop_ok", "stop_raised"}
    /\ last_call' # last_call \/ connected' # connected

\* the positions at which a telemetry task waits for the event loop
HostPositions == {"created", "sleep", "returned", "raised"}

\* C15: with no cancellation from outside every telemetry task stays running
\* and always has a next step; a stop() leaves every task and its cycle as it
\* is, disconnects the link when the client exists (a normal return means the
\* link is disconnected, a raise comes from disconnect()) and does nothing
\* when it does not; and after a stop() a task that waits for the event loop
\* goes on to attempt its next cycle.
C15_StopLeavesLoopsRunning ==
    /\ [](\A l \in Loops : loop_task[l] = "running" /\ ENABLED TelemetryStep(l))
    /\ [][StopStep =>
            /\ UNCHANGED telemetry_vars
            /\ qilowatt_client = "None" => (last_call' = "stop_ok" /\ connected' = connected)
            /\ (qilowatt_client # "None" /\ last_call' = "stop_ok") => ~connected']_vars
    /\ \A l \in 1..MaxStarts :
         (l \in Loops /\ last_call \in {"stop_ok", "stop_raised"}
                      /\ loop_pc[l] \in HostPositions)
             ~> (l \in Loops /\ loop_pc[l] = "get_energy")

\* C15's case: after a stop() that disconnected the link, a task whose cycle
\* failed is attempting the next cycle
C15_CycleAttemptedAfterStop ==
    /\ last_call = "stop_ok"
    /\ ~connected
    /\ \E l \in Loops : loop_failed[l] /\ loop_pc[l] = "get_energy" /\ loop_task[l] = "running"

\* a step of the update_data call of task l in its worker thread
WorkerStep(l) ==
    \/ update_data_get_energy(l)
    \/ update_data_get_metrics(l)
    \/ update_data_set_energy(l)
    \/ update_data_set_metrics(l)

\* task l starts an iteration of its loop
IterationStarts(l) == loop_pc'[l] = "get_energy" /\ loop_pc[l] # "get_energy"

\* C16: a task is stopped exactly when a cancellation was delivered to it and
\* it stays stopped; from the cancel() on, the task starts no iteration and the
\* handler of a failed cycle records nothing for it; the cancellation changes
\* nothing of an update_data call in progress, and such a call can always
\* take its next step, the task being cancelled or not.
C16_CancellationStopsLoop ==
    /\ [](\A l \in Loops : loop_task[l] = "stopped" <=> loop_cancel[l] = "delivered")
    /\ [][\A l \in Loops :
            /\ loop_task[l] = "stopped" => loop_task'[l] = "stopped"
            /\ loop_cancel[l] # "no" =>
                 (~IterationStarts(l) /\ loop_failed'[l] = loop_failed[l]
                                      /\ loop_cancel'[l] # "no")
            /\ loop_cancel'[l] # loop_cancel[l] =>
                 /\ loop_pc'[l] = loop_pc[l]
                 /\ loop_energy'[l] = loop_energy[l]
                 /\ loop_metrics'[l] = loop_metrics[l]
                 /\ UNCHANGED <<link_energy, link_metrics>>]_vars
    /\ [](\A l \in Loops : loop_pc[l] \in WorkerPositions => ENABLED WorkerStep(l))

\* C16's case: a task was cancelled while its update_data call was running,
\* and the call has gone on to its last line
C16_ReadFinishesAfterCancel ==
    \E l \in Loops :
        /\ loop_task[l] = "stopped"
        /\ loop_pc[l] = "set_metrics"
        /\ loop_energy[l] = NoData
        /\ link_energy # NoData

\* the telemetry tasks that are running
RunningLoops == {l \in Loops : loop_task[l] = "running"}

\* C17: after any sequence of start() and stop() calls, the telemetry tasks
\* that are running are as many as the start() calls that succeeded, each can
\* take a next step, and all of them belong to the one client that exists.
C17_OneLoopPerSuccessfulStart ==
    /\ Cardinality(RunningLoops) = starts_ok
    /\ RunningLoops = Loops
    /\ \A l \in Loops : ENABLED TelemetryStep(l)
    /\ Loops # {} => (links_constructed = 1 /\ qilowatt_client = "client")

\* C17's case: start() succeeded twice, the link was stopped, and two tasks
\* are inside update_data at the same time
C17_TwoLoopsAfterStop ==
    /\ starts_ok = 2
    /\ last_call = "stop_ok"
    /\ Cardinality(RunningLoops) = 2
    /\ \A l \in Loops : loop_pc[l] \in WorkerPositions

\* the control path of command c has run (its task is past its first step)
ControlPathRan(c) == task[c] \notin {"scheduled", "pending"}

\* C18: notifications are sent in the order the commands arrived, control
\* paths run in that order, and when the control path of a command runs while
\* the setting authorizes it, set_mode is invoked with it in that step, after
\* every invocation for an earlier command and before any for a later one.
C18_ArrivalOrderKept ==
    /\ [](\A i, j \in 1..Len(bus) : i < j => bus[i].payload.id < bus[j].payload.id)
    /\ [](\A a, b \in Cmds : (a < b /\ ControlPathRan(b)) => ControlPathRan(a))
    /\ [][\A b \in Cmds :
            (ControlPathRuns(b) /\ AuthorizedNow(b)) =>
                /\ \A i \in 1..Len(set_mode_log) : set_mode_log[i].id < b
                /\ set_mode_log' = Append(set_mode_log, Command(b))]_vars

\* C18's case: two commands arrived one after the other, the setting
\* authorizes both, both control paths have run and both notifications were
\* sent
C18_TwoAuthorizedCommandsProcessed ==
    /\ Len(cmds) = 2
    /\ AuthorizedNow(1) /\ AuthorizedNow(2)
    /\ ControlPathRan(1) /\ ControlPathRan(2)
    /\ Len(bus) = 2 /\ bus[1].payload.id = 1 /\ bus[2].payload.id = 2

\* set_mode is invoked with command c in this step
SetModeInvoked(c) ==
    Cardinality(SetModeInvocations(set_mode_log', c))
        > Cardinality(SetModeInvocations(set_mode_log, c))

ReadFails(l) == loop_pc[l] \in {"get_energy", "get_metrics"} /\ loop_pc'[l] = "raised"

\* C20: a task is at a hand-off to the link only with both reads of its cycle
\* done; what the link holds changes only by such a hand-off, to the value the
\* task read in that cycle; a step in which a read fails leaves what the link
\* holds as it is and drops what the cycle had read, and from there the task
\* hands nothing over before its next cycle.
C20_ReadsBeforeHandOff ==
    /\ [](\A l \in Loops :
            /\ loop_pc[l] = "set_energy" => (loop_energy[l] \in Data /\ loop_metrics[l] \in Data)
            /\ loop_pc[l] = "set_metrics" => loop_metrics[l] \in Data
            /\ loop_pc[l] \in {"raised", "sleep", "get_energy"} =>
                   (loop_energy[l] = NoData /\ loop_metrics[l] = NoData))
    /\ [][/\ link_energy' # link_energy =>
               \E l \in Loops : /\ loop_pc[l] = "set_energy"
                                /\ link_energy' = loop_energy[l]
                                /\ loop_metrics[l] \in Data
          /\ link_metrics' # link_metrics =>
               \E l \in Loops : loop_pc[l] = "set_metrics" /\ link_metrics' = loop_metrics[l]
          /\ \A l \in Loops :
               /\ ReadFails(l) => UNCHANGED <<link_energy, link_metrics>>
               /\ loop_pc[l] = "raised" => loop_pc'[l] \in {"raised", "sleep"}
               /\ loop_pc[l] = "sleep" => loop_pc'[l] \in {"sleep", "get_energy"}]_vars

\* C20's case: the one task has failed in a cycle that followed a successful
\* one, and the link holds the data of the successful cycle
C20_LinkKeepsEarlierData ==
    /\ Len(loop_pc) = 1
    /\ loop_pc[1] = "raised"
    /\ ~loop_failed[1]
    /\ link_energy = "d1"
    /\ link_metrics = "d2"

====
